---------------------------- MODULE Spec2Model ----------------------------
(***************************************************************************)
(* Credix analytics dashboards: src/app.py (four dashboards behind a      *)
(* sidebar radio) and src/pages/portfolio_default_rate.py.                 *)
(*                                                                         *)
(* Three specifications share the module:                                  *)
(*   SpecPayment  the warehouse table gold.fact_payment_performance and    *)
(*                the result of load_payment_performance's query;          *)
(*   SpecCohort   the same table and the Cohort Analysis page: the query   *)
(*                of load_cohort_data, the cohort multiselect, the two     *)
(*                charts and the Cohort Details metrics;                   *)
(*   SpecApp      the control flow of a script run: radio, dispatch,       *)
(*                cached credentials and data, rendering, the blanket      *)
(*                exception handler, st.stop().                            *)
(*                                                                         *)
(* Numbers.  Dates are day numbers counted from 2024-01-01 (day 0).        *)
(* Percentages that SQL rounds to two decimals are kept as integers in     *)
(* hundredths of a percent (33.33 % is 3333); the division is exact        *)
(* rational arithmetic, rounded half away from zero as ROUND does.         *)
(***************************************************************************)
EXTENDS Integers, Sequences, FiniteSets, TLC

VARIABLES
    fact,               \* rows of gold.fact_payment_performance
    stage,              \* position of the data-side page run
    df_payment,         \* rows returned by load_payment_performance
    df_cohort,          \* rows returned by load_cohort_data
    selected_cohorts,   \* value of the cohort multiselect
    cohort_page,        \* what the Cohort Analysis page shows: traces, details
    script,             \* the script of the current run
    navigation,         \* st.session_state["navigation"], the radio's value
    resource_cache,     \* st.cache_resource: the functions with a cached value
    data_cache,         \* st.cache_data: the loaders with a cached frame
    pc,                 \* position of the run
    at,                 \* index of the next statement of the page body
    page,               \* value the radio returned in this run
    branch,             \* branch of the dispatch entered in this run
    credentials,        \* credentials held by the run
    df,                 \* data frame held by the run
    df_src,             \* where df came from: the query or the cache
    selection,          \* what the cohort multiselect returned in this run
    out,                \* elements put on the page by this run, in order
    issued,             \* queries sent to the warehouse in this run
    failed,             \* the load that failed in this run
    exc,                \* exception raised in this run
    escaped             \* exception that left the script

dataVars == <<fact, stage, df_payment, df_cohort, selected_cohorts, cohort_page>>

cacheVars == <<resource_cache, data_cache>>

runVars ==
    <<pc, at, page, branch, credentials, df, df_src, selection, out, issued,
      failed, exc, escaped>>

appVars == <<script, navigation, cacheVars, runVars>>

vars == <<dataVars, appVars>>

-----------------------------------------------------------------------------
(* Bounds and value sets of the warehouse rows *)

MaxRows == 3

NULL == -1

AssetIds == {1, 2}

Amounts == {0, 1, 2}

PaymentStatuses == {"FULLY_PAID_ON_TIME", "FULLY_PAID_WITH_DELAYS", "HAS_OVERDUE"}

\* lexicographic rank of a payment_status string (ORDER BY payment_status)
StatusRank(s) ==
    CASE s = "FULLY_PAID_ON_TIME" -> 0
      [] s = "FULLY_PAID_WITH_DELAYS" -> 1
      [] s = "HAS_OVERDUE" -> 2

\* CAST(date AS STRING); a NULL date stays NULL (None in the data frame)
CastDateAsString(d) ==
    CASE d = NULL -> "None"
      [] d = 45 -> "2024-02-15"
      [] d = 75 -> "2024-03-16"

-----------------------------------------------------------------------------
(* Arithmetic helpers *)

RECURSIVE SUM(_)
\* SUM over the values of a function with a finite domain
SUM(f) ==
    IF DOMAIN f = {} THEN 0
    ELSE LET i == CHOOSE j \in DOMAIN f : TRUE
         IN  f[i] + SUM([j \in DOMAIN f \ {i} |-> f[j]])

Abs(x) == IF x < 0 THEN 0 - x ELSE x

\* ROUND(n / d): nearest integer, halves away from zero (d > 0)
RoundDiv(n, d) ==
    IF n >= 0 THEN (2 * n + d) \div (2 * d)
    ELSE 0 - ((2 * (0 - n) + d) \div (2 * d))

RECURSIVE SortByKey(_, _)
\* the elements of S as a sequence in increasing key order (keys distinct)
SortByKey(S, key) ==
    IF S = {} THEN <<>>
    ELSE LET m == CHOOSE x \in S : \A y \in S : key[x] <= key[y]
         IN  <<m>> \o SortByKey(S \ {m}, key)

-----------------------------------------------------------------------------
(* gold.fact_payment_performance *)

FactRow(a, fi, ld, st, orig, ex, pd) ==
    [asset_id |-> a, first_issue_date |-> fi, last_due_date |-> ld,
     payment_status |-> st, total_original_amount |-> orig,
     total_expected_amount |-> ex, total_paid_amount |-> pd]

\* The table is a bag of rows; it is kept as a sequence in increasing RowCode
\* order, so that one bag is one state.
RowCode(r) ==
    (((((r.asset_id * 1000 + (r.first_issue_date + 1)) * 1000
        + (r.last_due_date + 1)) * 3 + StatusRank(r.payment_status)) * 4
        + r.total_original_amount) * 4 + r.total_expected_amount) * 4
        + r.total_paid_amount

\* a row is appended to the table by the warehouse's own pipeline
InsertRow(r) ==
    /\ stage = "idle"
    /\ Len(fact) < MaxRows
    /\ IF fact = <<>> THEN TRUE ELSE RowCode(fact[Len(fact)]) <= RowCode(r)
    /\ fact' = Append(fact, r)

-----------------------------------------------------------------------------
(* load_payment_performance: the query of src/app.py lines 69-115 *)

\* Rows of the payment query.  The columns the query does not read are fixed;
\* last_due_date is 2024-02-15 or 2024-03-16, and two more rows carry a NULL
\* last_due_date.
PaymentFactRows ==
    {FactRow(a, 10, ld, st, orig, 0, 0) :
        a \in AssetIds, ld \in {45, 75}, st \in PaymentStatuses, orig \in Amounts}
    \cup {FactRow(1, 10, NULL, "HAS_OVERDUE", 1, 0, 0),
          FactRow(2, 10, NULL, "FULLY_PAID_ON_TIME", 2, 0, 0)}

AssetsOf(t) == {t[i].asset_id : i \in DOMAIN t}

\* ROW_NUMBER() OVER (PARTITION BY asset_id ORDER BY last_due_date DESC) = 1:
\* the row numbered 1 is first in descending last_due_date order (NULLs last);
\* among rows of equal last_due_date the engine is free to number any first.
IsFirstByDateAsc(t, i) ==
    \A j \in DOMAIN t :
        t[j].asset_id = t[i].asset_id => t[i].last_due_date <= t[j].last_due_date

IsFirstByDateDesc(t, i) ==
    \A j \in DOMAIN t :
        t[j].asset_id = t[i].asset_id => t[j].last_due_date <= t[i].last_due_date

\* the assignments of rn = 1 the engine may produce: one row per asset_id
latest_data(t) ==
    {pick \in [AssetsOf(t) -> DOMAIN t] :
        \A a \in AssetsOf(t) :
            /\ t[pick[a]].asset_id = a
            /\ IsFirstByDateDesc(t, pick[a])}

\* GROUP BY payment_status over the rows with rn = 1
current_status(t, pick) ==
    LET latest == {pick[a] : a \in DOMAIN pick}
        of(s)  == {i \in latest : t[i].payment_status = s}
    IN  {[payment_status |-> s,
          count |-> Cardinality(of(s)),
          total_amount |-> SUM([i \in of(s) |-> t[i].total_original_amount])] :
            s \in {t[i].payment_status : i \in latest}}

\* GROUP BY DATE(last_due_date), payment_status over every row of the table
historical_stats(t) ==
    LET of(d, s) == {i \in DOMAIN t :
                        t[i].last_due_date = d /\ t[i].payment_status = s}
    IN  {[date |-> t[k].last_due_date,
          payment_status |-> t[k].payment_status,
          count |-> Cardinality(of(t[k].last_due_date, t[k].payment_status)),
          total_amount |-> SUM([i \in of(t[k].last_due_date, t[k].payment_status)
                                   |-> t[i].total_original_amount])] :
            k \in DOMAIN t}

\* SUM(total_amount) OVER (PARTITION BY date) for the historical row g
HistoricalWindowAll(H, g) == SUM([h \in H |-> h.total_amount])

HistoricalWindow(H, g) ==
    SUM([h \in {x \in H : x.date = g.date} |-> h.total_amount])

\* SUM(total_amount) OVER () for the CURRENT rows
CurrentWindow(C) == SUM([c \in C |-> c.total_amount])

\* ROUND(total_amount / window * 100, 2), in hundredths of a percent
Percentage(total_amount, window) == RoundDiv(total_amount * 10000, window)

\* the "/" of the query raises "division by zero" when a window sum is 0
PaymentQueryFails(C, H) ==
    \/ C # {} /\ CurrentWindow(C) = 0
    \/ \E g \in H : HistoricalWindow(H, g) = 0

\* the final SELECT ... UNION ALL ... ORDER BY date = 'CURRENT' DESC, date,
\* payment_status
PaymentResult(C, H) ==
    LET cur == {[date |-> "CURRENT", payment_status |-> c.payment_status,
                 count |-> c.count, total_amount |-> c.total_amount,
                 percentage |-> Percentage(c.total_amount, CurrentWindow(C)),
                 sortkey |-> StatusRank(c.payment_status)] : c \in C}
        his == {[date |-> CastDateAsString(g.date),
                 payment_status |-> g.payment_status,
                 count |-> g.count, total_amount |-> g.total_amount,
                 percentage |-> Percentage(g.total_amount, HistoricalWindow(H, g)),
                 sortkey |-> (g.date + 1) * 3 + StatusRank(g.payment_status)] :
                    g \in H}
        strip(r) == [date |-> r.date, payment_status |-> r.payment_status,
                     count |-> r.count, total_amount |-> r.total_amount,
                     percentage |-> r.percentage]
        cs == SortByKey(cur, [r \in cur |-> r.sortkey])
        hs == SortByKey(his, [r \in his |-> r.sortkey])
    IN  [i \in 1..Len(cs) |-> strip(cs[i])] \o [i \in 1..Len(hs) |-> strip(hs[i])]

NoFrame == [status |-> "none", rows |-> <<>>]

NoPage ==
    [fig_default |-> [c \in {} |-> <<>>], fig_payment |-> [c \in {} |-> <<>>],
     details |-> [c \in {} |-> <<>>]]

\* pd.read_gbq of the payment query on table t, under one numbering of the rows
load_payment_performance(t, pick) ==
    LET C == current_status(t, pick)
        H == historical_stats(t)
    IN  IF PaymentQueryFails(C, H)
        THEN [status |-> "error", rows |-> <<>>]
        ELSE [status |-> "ok", rows |-> PaymentResult(C, H)]

\* a run of the Payment Behavior page reads the table
LoadPaymentPerformance ==
    /\ stage = "idle"
    /\ \E pick \in latest_data(fact) :
           df_payment' = load_payment_performance(fact, pick)
    /\ stage' = "payment"
    /\ UNCHANGED <<fact, df_cohort, selected_cohorts, cohort_page, appVars>>

\* the cached frame expires (ttl = "1h"); the next run reads the table again
ExpirePayment ==
    /\ stage = "payment"
    /\ stage' = "idle"
    /\ df_payment' = NoFrame
    /\ UNCHANGED <<fact, df_cohort, selected_cohorts, cohort_page, appVars>>

InsertPaymentRow ==
    /\ \E r \in PaymentFactRows : InsertRow(r)
    /\ UNCHANGED <<stage, df_payment, df_cohort, selected_cohorts, cohort_page, appVars>>

-----------------------------------------------------------------------------
(* load_cohort_data: the query of src/app.py lines 417-479 *)

\* first days of the months of 2024, as day numbers
MonthStarts == {0, 31, 60, 91, 121, 152}

\* DATE_TRUNC(DATE(d), MONTH)
DateTruncMonth(d) == CHOOSE m \in MonthStarts : m <= d /\ \A n \in MonthStarts : n <= d => n <= m

\* strftime('%Y-%m') of a cohort month
CohortMonthStr(m) ==
    CASE m = 0 -> "2024-01"
      [] m = 31 -> "2024-02"
      [] m = 60 -> "2024-03"
      [] m = 91 -> "2024-04"
      [] m = 121 -> "2024-05"
      [] m = 152 -> "2024-06"

\* CURRENT_DATE() of the run: 2025-01-20
Today == 385

\* DATE_SUB(d, INTERVAL 12 MONTH) for a date of January 2025: the same day
\* of January 2024, 366 days earlier (2024 is a leap year)
DateSub12Months(d) == d - 366

\* Rows of the cohort query (total_original_amount is not read).  Loans of
\* the February cohort (issued 2024-02-10) are due 2024-03-16, 2024-04-15 or
\* 2024-05-15 and are paid, unpaid, without an expected amount, or paid
\* without one; loans of the March cohort (issued 2024-03-11) are due on the
\* last two dates and are paid or unpaid.  Four more rows carry the values the
\* query treats specially: a NULL first_issue_date, a NULL last_due_date, a
\* cohort older than twelve months (issued 2024-01-11) and the status
\* FULLY_PAID_WITH_DELAYS.
CohortFactRows ==
    {FactRow(a, 40, ld, k[1], 0, k[2], k[3]) :
        a \in AssetIds, ld \in {75, 105, 135},
        k \in {<<"FULLY_PAID_ON_TIME", 1, 1>>, <<"HAS_OVERDUE", 1, 0>>,
               <<"HAS_OVERDUE", 0, 0>>, <<"FULLY_PAID_ON_TIME", 0, 1>>}}
    \cup {FactRow(a, 70, ld, k[1], 0, k[2], k[3]) :
        a \in AssetIds, ld \in {105, 135},
        k \in {<<"FULLY_PAID_ON_TIME", 1, 1>>, <<"HAS_OVERDUE", 1, 0>>}}
    \cup {FactRow(1, NULL, 75, "HAS_OVERDUE", 0, 1, 0),
          FactRow(1, 40, NULL, "HAS_OVERDUE", 0, 1, 0),
          FactRow(1, 10, 75, "HAS_OVERDUE", 0, 1, 0),
          FactRow(2, 40, 75, "FULLY_PAID_WITH_DELAYS", 0, 1, 1)}

\* the CASE of base_data
is_paid(st) ==
    IF st \in {"FULLY_PAID_ON_TIME", "FULLY_PAID_WITH_DELAYS"} THEN 1 ELSE 0

\* base_data: the rows with both dates, as indices into the table
base_data(t) ==
    {i \in DOMAIN t : t[i].first_issue_date # NULL /\ t[i].last_due_date # NULL}

cohort_month(r) == DateTruncMonth(r.first_issue_date)

\* daily_stats: GROUP BY cohort_month, analysis_date, days_since_origination
daily_stats(t) ==
    LET B == base_data(t)
        of(c, d) == {i \in B : cohort_month(t[i]) = c /\ t[i].last_due_date = d}
    IN  {LET c == cohort_month(t[k])
             d == t[k].last_due_date
         IN  [cohort_month |-> c,
              analysis_date |-> d,
              days_since_origination |-> d - c,
              total_loans |-> Cardinality({t[i].asset_id : i \in of(c, d)}),
              total_expected_amount |->
                  SUM([i \in of(c, d) |-> t[i].total_expected_amount]),
              total_paid_amount |->
                  SUM([i \in of(c, d) |-> t[i].total_paid_amount]),
              paid_loans |->
                  Cardinality({i \in of(c, d) : is_paid(t[i].payment_status) = 1})] :
         k \in B}

\* A nullable number is the empty set (NULL) or the set of its one value.
\* ROUND(100 * (1 - SAFE_DIVIDE(paid, expected)), 2): NULL when expected is 0
daily_default_rate(g) ==
    IF g.total_expected_amount = 0 THEN {}
    ELSE {RoundDiv(10000 * (g.total_expected_amount - g.total_paid_amount),
                   g.total_expected_amount)}

\* MAX over nullable numbers: NULLs are skipped, NULL when there is no value
MaxOf(S) ==
    LET V == UNION S
    IN  IF V = {} THEN {} ELSE {CHOOSE v \in V : \A w \in V : w <= v}

\* without the window: the rate of the row's own day
WindowCurrentRowOnly(D, g) == daily_default_rate(g)

\* MAX(daily_default_rate) OVER (PARTITION BY cohort_month ORDER BY
\* analysis_date ROWS BETWEEN UNBOUNDED PRECEDING AND CURRENT ROW)
WindowMax(D, g) ==
    MaxOf({daily_default_rate(h) :
            h \in {x \in D : /\ x.cohort_month = g.cohort_month
                             /\ x.analysis_date <= g.analysis_date}})

\* ROUND(100 * SAFE_DIVIDE(paid_loans, total_loans), 2): a group has a loan
paid_rate(D, g) == RoundDiv(10000 * g.paid_loans, g.total_loans)

\* cumulative_stats
cumulative_stats(t) ==
    LET D == daily_stats(t)
    IN  {[cohort_month |-> g.cohort_month,
          days_since_origination |-> g.days_since_origination,
          total_loans |-> g.total_loans,
          default_rate |-> WindowMax(D, g),
          paid_rate |-> paid_rate(D, g)] : g \in D}

\* ORDER BY cohort_month, days_since_origination
CohortOrderKey(r) == r.cohort_month * 1000 + r.days_since_origination

\* the final SELECT: WHERE cohort_month >= DATE_SUB(CURRENT_DATE(), INTERVAL
\* 12 MONTH) ORDER BY cohort_month, days_since_origination
load_cohort_data(t) ==
    LET S == {r \in cumulative_stats(t) :
                 r.cohort_month >= DateSub12Months(Today)}
    IN  [status |-> "ok", rows |-> SortByKey(S, [r \in S |-> CohortOrderKey(r)])]

-----------------------------------------------------------------------------
(* The Cohort Analysis page, src/app.py lines 482-603 *)

\* df_cohort['cohort_month_str'].unique()
CohortOptions(frame) == {CohortMonthStr(frame.rows[i].cohort_month) : i \in DOMAIN frame.rows}

\* df_selected[df_selected['cohort_month_str'] == cohort]
CohortData(frame, sel, cohort) ==
    SelectSeq(frame.rows, LAMBDA r : /\ CohortMonthStr(r.cohort_month) \in sel
                                  /\ CohortMonthStr(r.cohort_month) = cohort)

Column(rows, col) == [i \in DOMAIN rows |-> rows[i][col]]

\* .iloc[0]
FirstDataPoint(rows) == rows[1]

\* .iloc[-1]  # Get latest data point
LatestDataPoint(rows) == rows[Len(rows)]

\* the traces of the two tabs and the Cohort Details metrics
RenderCohortPage(frame, sel) ==
    [fig_default |->
        [c \in sel |-> [x |-> Column(CohortData(frame, sel, c), "days_since_origination"),
                        y |-> Column(CohortData(frame, sel, c), "default_rate")]],
     fig_payment |->
        [c \in sel |-> [x |-> Column(CohortData(frame, sel, c), "days_since_origination"),
                        y |-> Column(CohortData(frame, sel, c), "paid_rate")]],
     details |->
        [c \in sel |->
            LET cohort_data == LatestDataPoint(CohortData(frame, sel, c))
            IN  [total_loans |-> cohort_data.total_loans,
                 default_rate |-> cohort_data.default_rate,
                 paid_rate |-> cohort_data.paid_rate]]]

InsertCohortRow ==
    /\ \E r \in CohortFactRows : InsertRow(r)
    /\ UNCHANGED <<stage, df_payment, df_cohort, selected_cohorts, cohort_page, appVars>>

\* df_cohort = load_cohort_data()
LoadCohortData ==
    /\ stage = "idle"
    /\ df_cohort' = load_cohort_data(fact)
    /\ stage' = "loaded"
    /\ UNCHANGED <<fact, df_payment, selected_cohorts, cohort_page, appVars>>

\* st.multiselect returns a sublist of the options; with cohorts selected the
\* page draws the two tabs and the details
ShowCohorts ==
    /\ stage = "loaded"
    /\ \E sel \in SUBSET CohortOptions(df_cohort) :
        /\ sel # {}
        /\ selected_cohorts' = sel
        /\ cohort_page' = RenderCohortPage(df_cohort, sel)
    /\ stage' = "rendered"
    /\ UNCHANGED <<fact, df_payment, df_cohort, appVars>>

\* if not selected_cohorts: st.warning(...); st.stop()
StopNoCohorts ==
    /\ stage = "loaded"
    /\ selected_cohorts' = {}
    /\ cohort_page' = NoPage
    /\ stage' = "stopped"
    /\ UNCHANGED <<fact, df_payment, df_cohort, appVars>>

\* the cached frame expires (ttl = "1h")
ExpireCohort ==
    /\ stage \in {"rendered", "stopped"}
    /\ stage' = "idle"
    /\ df_cohort' = NoFrame
    /\ selected_cohorts' = {}
    /\ cohort_page' = NoPage
    /\ UNCHANGED <<fact, df_payment, appVars>>

\* a widget changes and the script runs again, the frame still cached
RerunCohort ==
    /\ stage \in {"rendered", "stopped"}
    /\ stage' = "loaded"
    /\ selected_cohorts' = {}
    /\ cohort_page' = NoPage
    /\ UNCHANGED <<fact, df_payment, df_cohort, appVars>>

-----------------------------------------------------------------------------
(* The scripts as programs: src/app.py and src/pages/portfolio_default_rate.py *)

Scripts == {"app", "default_rate"}

\* the options of the sidebar radio, in order
Dashboards ==
    <<"Portfolio Overview", "Risk Analysis", "Payment Behavior", "Cohort Analysis">>

DashboardSet == {Dashboards[i] : i \in DOMAIN Dashboards}

\* A statement of a page body.  op is
\*   "static"      an st.* call with constant arguments: it puts an element
\*                 (arg) on the page and does not raise;
\*   "load"        a call of the @st.cache_data loader arg;
\*   "auth"        a call of get_credentials();
\*   "query"       pd.read_gbq of the query arg, not cached;
\*   "reshape"     data-frame work on df that shows nothing;
\*   "show"        an element (arg) computed from df;
\*   "if_empty"    if df.empty: st.warning(...), else the rest of the body;
\*   "multiselect" st.multiselect over the cohorts of df;
\*   "stop_if_none" if not selected_cohorts: st.warning(...); st.stop().
\* try says whether the statement is inside the script's try block.
Stmt(op, arg) == [op |-> op, arg |-> arg, try |-> TRUE]

OutsideTry(stmt) == [stmt EXCEPT !.try = FALSE]

\* a chart drawn before the data is loaded
PortfolioOverviewChartFirst ==
    <<Stmt("static", "title"),
      Stmt("show", "chart"),
      Stmt("load", "load_loan_performance"),
      Stmt("show", "metric")>>

\* src/app.py lines 131-219
PortfolioOverview ==
    <<Stmt("static", "title"),
      Stmt("load", "load_loan_performance"),
      Stmt("static", "columns"),
      Stmt("show", "metric"), Stmt("show", "metric"),
      Stmt("show", "metric"), Stmt("show", "metric"),
      Stmt("static", "subheader"), Stmt("show", "chart"),
      Stmt("static", "columns"),
      Stmt("static", "subheader"), Stmt("show", "chart"),
      Stmt("static", "subheader"), Stmt("show", "chart"),
      Stmt("static", "subheader"), Stmt("show", "chart"),
      Stmt("static", "subheader"), Stmt("show", "chart")>>

\* src/app.py lines 225-320
RiskAnalysis ==
    <<Stmt("auth", "get_credentials"),
      Stmt("query", "risk_analysis_query"),
      Stmt("if_empty", "warning"),
      Stmt("static", "columns"),
      Stmt("show", "metric"), Stmt("show", "metric"), Stmt("show", "metric"),
      Stmt("static", "subheader"), Stmt("show", "chart"),
      Stmt("static", "subheader"), Stmt("reshape", "pivot"),
      Stmt("show", "chart")>>

\* src/app.py lines 323-407; the loop over current_status is one statement
PaymentBehavior ==
    <<Stmt("static", "title"),
      Stmt("load", "load_payment_performance"),
      Stmt("reshape", "split"),
      Stmt("static", "subheader"), Stmt("static", "columns"),
      Stmt("static", "subheader"), Stmt("show", "chart"),
      Stmt("static", "subheader"), Stmt("show", "chart"),
      Stmt("static", "subheader"),
      Stmt("reshape", "columns"), Stmt("show", "metric")>>

\* src/app.py lines 410-624; the loop over selected_cohorts is one statement
CohortAnalysis ==
    <<Stmt("static", "title"),
      Stmt("load", "load_cohort_data"),
      Stmt("reshape", "to_datetime"),
      Stmt("static", "subheader"),
      Stmt("multiselect", "selected_cohorts"),
      Stmt("stop_if_none", "warning"),
      Stmt("reshape", "isin"),
      Stmt("static", "tabs"),
      Stmt("show", "chart"), Stmt("show", "chart"),
      Stmt("static", "subheader"),
      Stmt("show", "metric"),
      Stmt("static", "markdown")>>

\* src/pages/portfolio_default_rate.py lines 47-113
PortfolioDefaultRate ==
    <<OutsideTry(Stmt("static", "title")),
      Stmt("load", "load_default_rate_analysis"),
      Stmt("static", "columns"),
      Stmt("show", "metric"), Stmt("show", "metric"), Stmt("show", "metric"),
      Stmt("static", "subheader"), Stmt("show", "chart"),
      Stmt("static", "subheader"), Stmt("reshape", "pivot"),
      Stmt("show", "chart")>>

\* the body of a branch
Body(b) ==
    CASE b = "Portfolio Overview" -> PortfolioOverview
      [] b = "Risk Analysis" -> RiskAnalysis
      [] b = "Payment Behavior" -> PaymentBehavior
      [] b = "Cohort Analysis" -> CohortAnalysis
      [] b = "Portfolio Default Rate" -> PortfolioDefaultRate
      [] OTHER -> <<>>

\* the @st.cache_resource function a script takes its credentials from
ResourceFn(sc) == IF sc = "app" THEN "get_credentials" ELSE "get_bigquery_client"

\* the radio with index = 1
RadioValueSecond(nav) == IF nav = "unset" THEN Dashboards[2] ELSE nav

\* st.sidebar.radio(..., index=0, key="navigation"): the stored choice, the
\* first option when nothing was chosen
RadioValue(nav) == IF nav = "unset" THEN Dashboards[1] ELSE nav

\* the if / elif chain of src/app.py
Dispatch(p) ==
    IF p = "Portfolio Overview" THEN "Portfolio Overview"
    ELSE IF p = "Risk Analysis" THEN "Risk Analysis"
    ELSE IF p = "Payment Behavior" THEN "Payment Behavior"
    ELSE IF p = "Cohort Analysis" THEN "Cohort Analysis"
    ELSE "none"

Exception(msg) == [type |-> "Exception", msg |-> msg]

NoException == [type |-> "none", msg |-> ""]

\* a handler that catches nothing
CatchesNothing(e) == FALSE

\* except Exception as e: StopException, which st.stop() raises, derives from
\* BaseException and is not caught
Catches(e) == e.type = "Exception"

Element(kind, of, text) == [kind |-> kind, of |-> of, text |-> text]

Cur == Body(branch)[at]

InBody == pc = "body" /\ at <= Len(Body(branch))

\* statement stmt raises e: into the handler when the statement is in the try
\* block and the handler catches e, out of the script otherwise
Raise(stmt, e) ==
    /\ exc' = e
    /\ IF stmt.try /\ Catches(e)
       THEN pc' = "except" /\ escaped' = escaped
       ELSE pc' = "end" /\ escaped' = e.type

-----------------------------------------------------------------------------
(* A run of a script *)

\* the top of the script: app.py shows its sidebar and reads the radio,
\* the page script has no navigation of its own
StartRun ==
    /\ pc = "start"
    /\ IF script = "app"
       THEN /\ page' = RadioValue(navigation)
            /\ out' = <<Element("title", "sidebar", ""), Element("radio", "sidebar", "")>>
            /\ pc' = "dispatch"
            /\ UNCHANGED <<branch, at>>
       ELSE /\ branch' = "Portfolio Default Rate"
            /\ at' = 1
            /\ pc' = "body"
            /\ UNCHANGED <<page, out>>
    /\ UNCHANGED <<script, navigation, cacheVars, credentials, df, df_src,
                   selection, issued, failed, exc, escaped, dataVars>>

\* if page == ... elif page == ...
EnterBranch ==
    /\ pc = "dispatch"
    /\ branch' = Dispatch(page)
    /\ at' = 1
    /\ pc' = "body"
    /\ UNCHANGED <<script, navigation, cacheVars, page, credentials, df, df_src,
                   selection, out, issued, failed, exc, escaped, dataVars>>

\* st.title, st.subheader, st.columns, st.tabs, st.markdown
Static ==
    /\ InBody /\ Cur.op = "static"
    /\ out' = Append(out, Element(Cur.arg, branch, ""))
    /\ at' = at + 1
    /\ UNCHANGED <<script, navigation, cacheVars, pc, page, branch, credentials,
                   df, df_src, selection, issued, failed, exc, escaped, dataVars>>

\* a cached loader is called and its frame is in the cache: the body of the
\* loader does not run
CacheHit ==
    /\ InBody /\ Cur.op = "load"
    /\ Cur.arg \in data_cache
    /\ df' = "rows" /\ df_src' = "cache"
    /\ at' = at + 1
    /\ UNCHANGED <<script, navigation, cacheVars, pc, page, branch, credentials,
                   selection, out, issued, failed, exc, escaped, dataVars>>

\* the body of a loader starts, or get_credentials() is called in the page
CallGetCredentials ==
    /\ InBody
    /\ \/ Cur.op = "load" /\ Cur.arg \notin data_cache
       \/ Cur.op = "auth"
    /\ pc' = "creds"
    /\ UNCHANGED <<script, navigation, cacheVars, at, page, branch, credentials,
                   df, df_src, selection, out, issued, failed, exc, escaped,
                   dataVars>>

\* where a run goes once it has its credentials: into the loader's query, or
\* on to the next statement
AfterCredentials ==
    IF Cur.op = "load" THEN pc' = "query" /\ at' = at
    ELSE pc' = "body" /\ at' = at + 1

\* get_credentials() / get_bigquery_client(): the cached value, or the
\* credentials built from st.secrets, which may raise
GetCredentials ==
    /\ pc = "creds"
    /\ \/ /\ ResourceFn(script) \in resource_cache
          /\ credentials' = "ok"
          /\ AfterCredentials
          /\ UNCHANGED <<resource_cache, failed, exc, escaped>>
       \/ /\ ResourceFn(script) \notin resource_cache
          /\ credentials' = "ok"
          /\ resource_cache' = resource_cache \cup {ResourceFn(script)}
          /\ AfterCredentials
          /\ UNCHANGED <<failed, exc, escaped>>
       \/ /\ ResourceFn(script) \notin resource_cache
          /\ failed' = "credentials"
          /\ Raise(Cur, Exception("gcp_service_account"))
          /\ UNCHANGED <<resource_cache, credentials, at>>
    /\ UNCHANGED <<script, navigation, data_cache, page, branch, df, df_src,
                   selection, out, issued, dataVars>>

\* the query a statement sends
QueryOf(stmt) == stmt.arg

\* pd.read_gbq(query, credentials=...): rows, no rows, or an error; a loader
\* that returns has its frame cached
ReadGbq ==
    /\ \/ pc = "query"
       \/ InBody /\ Cur.op = "query"
    /\ issued' = issued \cup {QueryOf(Cur)}
    /\ \/ /\ df' \in (IF Cur.op = "query" THEN {"rows", "empty"} ELSE {"rows"})
          /\ df_src' = "query"
          /\ data_cache' = (IF Cur.op = "load" THEN data_cache \cup {Cur.arg}
                            ELSE data_cache)
          /\ pc' = "body" /\ at' = at + 1
          /\ UNCHANGED <<failed, exc, escaped>>
       \/ /\ failed' = "query"
          /\ Raise(Cur, Exception("read_gbq"))
          /\ UNCHANGED <<df, df_src, data_cache, at>>
    /\ UNCHANGED <<script, navigation, resource_cache, page, branch, credentials,
                   selection, out, dataVars>>

\* filtering, pd.to_datetime, pivot, st.columns(len(...)): may raise
Reshape ==
    /\ InBody /\ Cur.op = "reshape"
    /\ \/ /\ at' = at + 1
          /\ UNCHANGED <<pc, exc, escaped>>
       \/ /\ Raise(Cur, Exception(Cur.arg))
          /\ UNCHANGED at
    /\ UNCHANGED <<script, navigation, cacheVars, page, branch, credentials, df,
                   df_src, selection, out, issued, failed, dataVars>>

\* st.metric, st.plotly_chart of values computed from df: may raise
Show ==
    /\ InBody /\ Cur.op = "show"
    /\ \/ /\ out' = Append(out, Element(Cur.arg, branch, ""))
          /\ at' = at + 1
          /\ UNCHANGED <<pc, exc, escaped>>
       \/ /\ Raise(Cur, Exception(Cur.arg))
          /\ UNCHANGED <<out, at>>
    /\ UNCHANGED <<script, navigation, cacheVars, page, branch, credentials, df,
                   df_src, selection, issued, failed, dataVars>>

\* if df.empty: st.warning("No default rate data available.") else: ...
IfEmpty ==
    /\ InBody /\ Cur.op = "if_empty"
    /\ IF df = "empty"
       THEN /\ out' = Append(out, Element("warning", branch, ""))
            /\ at' = Len(Body(branch)) + 1
       ELSE /\ at' = at + 1
            /\ UNCHANGED out
    /\ UNCHANGED <<script, navigation, cacheVars, pc, page, branch, credentials,
                   df, df_src, selection, issued, failed, exc, escaped, dataVars>>

\* st.multiselect: some cohorts, or none
Multiselect ==
    /\ InBody /\ Cur.op = "multiselect"
    /\ selection' \in {"some", "none"}
    /\ out' = Append(out, Element("multiselect", branch, ""))
    /\ at' = at + 1
    /\ UNCHANGED <<script, navigation, cacheVars, pc, page, branch, credentials,
                   df, df_src, issued, failed, exc, escaped, dataVars>>

\* if not selected_cohorts: st.warning(...); st.stop()
StopIfNone ==
    /\ InBody /\ Cur.op = "stop_if_none"
    /\ IF selection = "none"
       THEN /\ out' = Append(out, Element("warning", branch, ""))
            /\ Raise(Cur, [type |-> "StopException", msg |-> ""])
            /\ UNCHANGED at
       ELSE /\ at' = at + 1
            /\ UNCHANGED <<out, pc, exc, escaped>>
    /\ UNCHANGED <<script, navigation, cacheVars, page, branch, credentials, df,
                   df_src, selection, issued, failed, dataVars>>

\* the body ran to its end
BodyDone ==
    /\ pc = "body" /\ at > Len(Body(branch))
    /\ pc' = "end"
    /\ UNCHANGED <<script, navigation, cacheVars, at, page, branch, credentials,
                   df, df_src, selection, out, issued, failed, exc, escaped,
                   dataVars>>

\* except Exception as e: st.error(f"An error occurred: {str(e)}");
\* st.error("Please make sure you have set up the correct credentials ...")
Handler ==
    /\ pc = "except"
    /\ out' = out \o <<Element("error", "handler", exc.msg),
                       Element("hint", "handler", "secrets.toml")>>
    /\ pc' = "end"
    /\ UNCHANGED <<script, navigation, cacheVars, at, page, branch, credentials,
                   df, df_src, selection, issued, failed, exc, escaped, dataVars>>

InitRun ==
    /\ pc = "start" /\ at = 1
    /\ page = "none" /\ branch = "none"
    /\ credentials = "none"
    /\ df = "none" /\ df_src = "none"
    /\ selection = "unset"
    /\ out = <<>>
    /\ issued = {}
    /\ failed = "none"
    /\ exc = NoException
    /\ escaped = "none"

\* the next run: the user picks a dashboard in the radio, opens the other
\* script, or any widget reruns the script as it is
Rerun ==
    /\ pc = "end"
    /\ script' \in Scripts
    /\ navigation' \in {navigation} \cup DashboardSet
    /\ pc' = "start" /\ at' = 1
    /\ page' = "none" /\ branch' = "none"
    /\ credentials' = "none"
    /\ df' = "none" /\ df_src' = "none"
    /\ selection' = "unset"
    /\ out' = <<>>
    /\ issued' = {}
    /\ failed' = "none"
    /\ exc' = NoException
    /\ escaped' = "none"
    /\ UNCHANGED <<cacheVars, dataVars>>

\* a cached frame reaches its ttl of one hour
ExpireData ==
    /\ pc = "end"
    /\ \E fn \in data_cache : data_cache' = data_cache \ {fn}
    /\ UNCHANGED <<script, navigation, resource_cache, runVars, dataVars>>

InitApp ==
    /\ script \in Scripts
    /\ navigation = "unset"
    /\ resource_cache = {}
    /\ data_cache = {}
    /\ InitRun

-----------------------------------------------------------------------------
(* Specifications *)

InitData ==
    /\ fact = <<>>
    /\ stage = "idle"
    /\ df_payment = NoFrame
    /\ df_cohort = NoFrame
    /\ selected_cohorts = {}
    /\ cohort_page = NoPage

Init == InitData /\ InitApp

NextPayment == InsertPaymentRow \/ LoadPaymentPerformance \/ ExpirePayment

SpecPayment == Init /\ [][NextPayment]_vars

NextCohort ==
    \/ InsertCohortRow
    \/ LoadCohortData
    \/ ShowCohorts
    \/ StopNoCohorts
    \/ RerunCohort
    \/ ExpireCohort

SpecCohort == Init /\ [][NextCohort]_vars

NextApp ==
    \/ StartRun
    \/ EnterBranch
    \/ Static
    \/ CacheHit
    \/ CallGetCredentials
    \/ GetCredentials
    \/ ReadGbq
    \/ Reshape
    \/ Show
    \/ IfEmpty
    \/ Multiselect
    \/ StopIfNone
    \/ BodyDone
    \/ Handler
    \/ Rerun
    \/ ExpireData

SpecApp == Init /\ [][NextApp]_vars

-----------------------------------------------------------------------------
(* Claims about load_payment_performance (SpecPayment) *)

PaymentRows == {df_payment.rows[i] : i \in DOMAIN df_payment.rows}

\* the rows of the result that carry the same date as r: all CURRENT rows
\* together, each historical date on its own
GroupOf(r) == {x \in PaymentRows : x.date = r.date}

\* C4: the percentage of a payment status is its share of the total amount of
\* its own group (the CURRENT rows together, each historical date separately)
\* times 100, rounded to two decimals; within a group the percentages sum to
\* 100 up to rounding (half a hundredth per row) and each lies in 0..100.
C4_PercentageIsShareOfOwnGroup ==
    df_payment.status = "ok" =>
        \A r \in PaymentRows :
            LET G     == GroupOf(r)
                total == SUM([x \in G |-> x.total_amount])
                pcts  == SUM([x \in G |-> x.percentage])
            IN  /\ total > 0
                /\ r.percentage = RoundDiv(r.total_amount * 10000, total)
                /\ r.percentage >= 0 /\ r.percentage <= 10000
                /\ 2 * Abs(pcts - 10000) <= Cardinality(G)

\* two historical dates, the first split one third / two thirds between two
\* statuses, and CURRENT rows split the same way over other rows
C4_Witness ==
    /\ df_payment.status = "ok"
    /\ \E r1, r2, r3 \in PaymentRows :
        /\ r1.date = "2024-02-15" /\ r2.date = "2024-02-15"
        /\ r1.percentage = 3333 /\ r2.percentage = 6667
        /\ r3.date = "2024-03-16" /\ r3.percentage = 10000
    /\ \E c1, c2 \in PaymentRows :
        /\ c1.date = "CURRENT" /\ c1.percentage = 3333
        /\ c2.date = "CURRENT" /\ c2.percentage = 6667
        /\ c1.payment_status = "HAS_OVERDUE"

CurrentRows == {r \in PaymentRows : r.date = "CURRENT"}

HistoricalRows == {r \in PaymentRows : r.date # "CURRENT"}

\* C9: in the CURRENT rows every asset_id is counted exactly once, under the
\* payment_status of a record of it with the latest last_due_date, so the
\* CURRENT counts sum to the number of distinct asset_ids; a historical row
\* counts every record of its date and status, so the historical counts sum
\* to the number of records.
C9_CurrentCountsEachAssetOnce ==
    df_payment.status = "ok" =>
        /\ SUM([r \in CurrentRows |-> r.count]) = Cardinality(AssetsOf(fact))
        /\ \E f \in [AssetsOf(fact) -> DOMAIN fact] :
            /\ \A a \in AssetsOf(fact) :
                /\ fact[f[a]].asset_id = a
                /\ \A j \in DOMAIN fact :
                     fact[j].asset_id = a =>
                        fact[j].last_due_date <= fact[f[a]].last_due_date
            /\ \A s \in PaymentStatuses :
                LET n == Cardinality({a \in AssetsOf(fact) :
                                         fact[f[a]].payment_status = s})
                IN  IF n = 0
                    THEN \A r \in CurrentRows : r.payment_status # s
                    ELSE \E r \in CurrentRows :
                            r.payment_status = s /\ r.count = n
        /\ \A r \in HistoricalRows :
             r.count = Cardinality({i \in DOMAIN fact :
                           /\ CastDateAsString(fact[i].last_due_date) = r.date
                           /\ fact[i].payment_status = r.payment_status})
        /\ SUM([r \in HistoricalRows |-> r.count]) = Len(fact)

\* one asset with an older overdue record and a later paid one, and a second
\* asset: the CURRENT rows count 2 assets, the historical rows 3 records
C9_Witness ==
    /\ df_payment.status = "ok"
    /\ Len(fact) = 3
    /\ Cardinality(AssetsOf(fact)) = 2
    /\ \E i, j \in DOMAIN fact :
        /\ fact[i].asset_id = fact[j].asset_id
        /\ fact[i].last_due_date = 45 /\ fact[j].last_due_date = 75
        /\ fact[i].payment_status = "HAS_OVERDUE"
        /\ fact[j].payment_status = "FULLY_PAID_ON_TIME"
    /\ \A r \in CurrentRows : r.payment_status = "FULLY_PAID_ON_TIME" /\ r.count = 2
    /\ SUM([r \in HistoricalRows |-> r.count]) = 3

-----------------------------------------------------------------------------
(* Claims about the Cohort Analysis page (SpecCohort) *)

CohortRows == {df_cohort.rows[i] : i \in DOMAIN df_cohort.rows}

\* the records of the table that belong to cohort month c and fall on day d
\* since origination
GroupRecords(c, d) ==
    {i \in DOMAIN fact :
        /\ fact[i].first_issue_date # NULL /\ fact[i].last_due_date # NULL
        /\ \E m \in MonthStarts :
            /\ m <= fact[i].first_issue_date
            /\ \A n \in MonthStarts : n <= fact[i].first_issue_date => n <= m
            /\ m = c
        /\ fact[i].last_due_date - c = d}

GroupExpected(c, d) == SUM([i \in GroupRecords(c, d) |-> fact[i].total_expected_amount])

GroupPaid(c, d) == SUM([i \in GroupRecords(c, d) |-> fact[i].total_paid_amount])

\* 100 * (1 - paid / expected) of the (cohort, day) group, to two decimals;
\* no value when nothing is expected
UnpaidPct(c, d) ==
    IF GroupExpected(c, d) = 0 THEN {}
    ELSE {RoundDiv(10000 * (GroupExpected(c, d) - GroupPaid(c, d)),
                   GroupExpected(c, d))}

\* C2: default_rate of a row is the running maximum of daily_default_rate
\* over the rows of the same cohort_month at or before the row's
\* analysis_date (rows without a rate are skipped), so within a cohort
\* default_rate never decreases as days_since_origination increases.
C2_DefaultRateIsRunningMax ==
    df_cohort.status = "ok" =>
        /\ \A r \in CohortRows :
            LET V == UNION {UnpaidPct(r.cohort_month, x.days_since_origination) :
                              x \in {y \in CohortRows :
                                  /\ y.cohort_month = r.cohort_month
                                  /\ y.days_since_origination
                                        <= r.days_since_origination}}
            IN  IF V = {} THEN r.default_rate = {}
                ELSE \E v \in V : r.default_rate = {v} /\ \A w \in V : w <= v
        /\ \A r1, r2 \in CohortRows :
            (/\ r1.cohort_month = r2.cohort_month
             /\ r1.days_since_origination <= r2.days_since_origination)
            => \A v1 \in r1.default_rate : \E v2 \in r2.default_rate : v1 <= v2

\* the February cohort on three days: 100 % unpaid, then 0 %, then no
\* expected amount; the running maximum stays 100 %
C2_Witness ==
    /\ df_cohort.status = "ok"
    /\ UnpaidPct(31, 44) = {10000}
    /\ UnpaidPct(31, 74) = {0}
    /\ UnpaidPct(31, 104) = {}
    /\ \E r1, r2, r3 \in CohortRows :
        /\ r1.cohort_month = 31 /\ r1.days_since_origination = 44
        /\ r2.cohort_month = 31 /\ r2.days_since_origination = 74
        /\ r3.cohort_month = 31 /\ r3.days_since_origination = 104
        /\ r1.default_rate = {10000}
        /\ r2.default_rate = {10000}
        /\ r3.default_rate = {10000}

MonthOfStr(c) == CHOOSE m \in MonthStarts : CohortMonthStr(m) = c

\* C3: every point of the Remaining Balance Rate chart shows, for its cohort
\* and day since origination, 100 * (1 - total_paid_amount /
\* total_expected_amount) of that (cohort, day) group (to two decimals; a
\* group with no expected amount has no such percentage and is left open).
C3_ChartShowsUnpaidShareOfTheDay ==
    stage = "rendered" =>
        \A c \in selected_cohorts :
            \A k \in DOMAIN cohort_page.fig_default[c].x :
                LET unpaid == UnpaidPct(MonthOfStr(c), cohort_page.fig_default[c].x[k])
                IN  unpaid # {} => cohort_page.fig_default[c].y[k] = unpaid

\* C5: within a cohort the Fully Paid Loans percentage (paid_rate) does not
\* decrease as days_since_origination increases.
C5_PaidRateNeverDecreases ==
    df_cohort.status = "ok" =>
        \A r1, r2 \in CohortRows :
            (/\ r1.cohort_month = r2.cohort_month
             /\ r1.days_since_origination <= r2.days_since_origination)
            => r1.paid_rate <= r2.paid_rate

\* C6: for every selected cohort the Cohort Details metrics (Total Loans,
\* Remaining Balance Rate, Fully Paid Loans) are those of the one row of the
\* cohort with the greatest days_since_origination.
C6_DetailsAreOfLatestRow ==
    stage = "rendered" =>
        \A c \in selected_cohorts :
            \E r \in CohortRows :
                /\ CohortMonthStr(r.cohort_month) = c
                /\ \A x \in CohortRows :
                    (x.cohort_month = r.cohort_month /\ x # r)
                    => x.days_since_origination < r.days_since_origination
                /\ cohort_page.details[c].total_loans = r.total_loans
                /\ cohort_page.details[c].default_rate = r.default_rate
                /\ cohort_page.details[c].paid_rate = r.paid_rate

\* both cohorts selected; the February cohort has two days whose rates
\* differ, and the details show those of the later day
C6_Witness ==
    /\ stage = "rendered"
    /\ selected_cohorts = {"2024-02", "2024-03"}
    /\ \E r1, r2 \in CohortRows :
        /\ r1.cohort_month = 31 /\ r2.cohort_month = 31
        /\ r1.days_since_origination < r2.days_since_origination
        /\ r1.default_rate # r2.default_rate
        /\ r1.paid_rate # r2.paid_rate
        /\ cohort_page.details["2024-02"].default_rate = r2.default_rate
        /\ cohort_page.details["2024-02"].paid_rate = r2.paid_rate

-----------------------------------------------------------------------------
(* Claims about a run of a script (SpecApp) *)

Shown(kinds) == {i \in DOMAIN out : out[i].kind \in kinds}

ErrorShown ==
    /\ Len(out) >= 2
    /\ out[Len(out) - 1] = Element("error", "handler", exc.msg)
    /\ out[Len(out)] = Element("hint", "handler", "secrets.toml")
    /\ \A i \in 1..(Len(out) - 2) : out[i].of # "handler"

\* C1: in both scripts an exception raised while the data is loaded or the
\* page is rendered goes to the one handler, which shows the error text and
\* the credentials hint; it never leaves the script, and once it is raised
\* the run puts nothing on the page but those two messages.
C1_ExceptionsAreCaught ==
    /\ [](/\ escaped # "Exception"
          /\ exc.type = "Exception" => pc \in {"except", "end"}
          /\ (exc.type = "Exception" /\ pc = "end") => ErrorShown)
    /\ [][exc.type = "Exception" /\ exc' = exc =>
            \/ out' = out
            \/ /\ pc = "except"
               /\ out' = out \o <<Element("error", "handler", exc.msg),
                                  Element("hint", "handler", "secrets.toml")>>]_vars

\* a chart of the Payment Behavior page raised after the first chart was
\* shown: the run ended with the two messages of the handler
C1_Witness ==
    /\ script = "app" /\ branch = "Payment Behavior"
    /\ pc = "end"
    /\ exc = Exception("chart")
    /\ Shown({"chart"}) # {}
    /\ ErrorShown

\* C7: a query is sent only by a run that holds credentials; a chart or a
\* KPI metric is shown only by a run that holds a frame, which a query of
\* this run returned or the cache kept from a query that returned; a run in
\* which the credentials or the query failed shows no chart and no metric.
C7_AuthenticateQueryDisplay ==
    /\ issued # {} => credentials = "ok"
    /\ Shown({"chart", "metric"}) # {} =>
        /\ df # "none"
        /\ df_src \in {"query", "cache"}
        /\ df_src = "query" => issued # {}
    /\ df_src = "query" => issued # {}
    /\ failed # "none" => Shown({"chart", "metric"}) = {}

\* a run of the page script that built its credentials, sent its query and
\* showed every metric and chart
C7_Witness ==
    /\ script = "default_rate"
    /\ pc = "end" /\ exc = NoException
    /\ credentials = "ok"
    /\ issued = {"load_default_rate_analysis"}
    /\ df_src = "query"
    /\ Cardinality(Shown({"chart"})) = 2
    /\ Cardinality(Shown({"metric"})) = 3

\* the query each dashboard sends
DashboardQuery(d) ==
    CASE d = "Portfolio Overview" -> "load_loan_performance"
      [] d = "Risk Analysis" -> "risk_analysis_query"
      [] d = "Payment Behavior" -> "load_payment_performance"
      [] d = "Cohort Analysis" -> "load_cohort_data"

\* C8: a run of app.py enters the branch of exactly one dashboard, the one
\* selected in the sidebar (Portfolio Overview when nothing was selected);
\* everything on the page besides the sidebar and the handler's messages is
\* of that dashboard, and only that dashboard's query is sent.
C8_OnlySelectedDashboard ==
    (script = "app" /\ pc # "start") =>
        LET selected == IF navigation = "unset" THEN "Portfolio Overview"
                        ELSE navigation
        IN  /\ selected \in DashboardSet
            /\ page = selected
            /\ pc # "dispatch" => branch = selected
            /\ \A i \in DOMAIN out : out[i].of \in {"sidebar", "handler", selected}
            /\ issued \subseteq {DashboardQuery(selected)}

\* nothing was selected: the run showed Portfolio Overview to its last chart
C8_Witness ==
    /\ script = "app" /\ navigation = "unset"
    /\ pc = "end" /\ exc = NoException
    /\ branch = "Portfolio Overview"
    /\ issued = {"load_loan_performance"}
    /\ Cardinality({i \in DOMAIN out :
            out[i].kind = "chart" /\ out[i].of = "Portfolio Overview"}) = 5

=============================================================================
